---------------------------- MODULE Spec2Model ----------------------------
(***************************************************************************)
(* Model of the arena server (src/unnamed/part_000): the player map, the   *)
(* token and effect arrays, the socket handlers (connection, input,        *)
(* disconnect, punch), updatePhysics with its interval timer, and the      *)
(* snapshot interval timer.                                                *)
(*                                                                         *)
(* Numbers.  JavaScript numbers are doubles.  Positions are modelled in    *)
(* fixed point, Scale units per pixel, and unit vectors in UnitScale units *)
(* per 1; every division rounds to the nearest unit, as a double rounds to *)
(* the nearest representable value.  Distances are compared by their       *)
(* squares, which is exact on the fixed-point values.  The clock           *)
(* (Date.now()) is in integer milliseconds and never runs backwards.       *)
(*                                                                         *)
(* Randomness.  Math.random() is modelled by a seed drawn with \E from a   *)
(* small set; the k-th integer drawn by a handler is a sample picked by    *)
(* seed and k.                                                             *)
(***************************************************************************)
EXTENDS Integers, Sequences, FiniteSets, TLC

(* ---- program constants (src/unnamed/part_000 lines 6-14, 41, 105, 149) *)
ARENA_WIDTH == 800
ARENA_HEIGHT == 600
PLAYER_RADIUS == 12
TOKEN_RADIUS == 6
TICK_RATE == 60
SNAPSHOT_RATE == 20
PUNCH_RANGE == 40
KNOCKBACK == 80
PUNCH_COOLDOWN_MS == 450
EFFECT_LIFETIME_MS == 250
TOKEN_TARGET == 24
SPEED == 180
DT_CAP_MS == 50

(* ---- bounds of the model *)
Scale == 10            \* fixed-point units per pixel
MaxSockets == 2        \* connections accepted over a run
MaxJumps == 2          \* long waits of the clock over a run of Spec
DuelJumps == 0         \* long waits of the clock over a run of SpecDuel
NumSeeds == 2          \* seeds of the random source

UnitScale == 100 * 100 \* fixed-point units per 1 for unit vectors
Fine == 5 * 10         \* a distance that is divided by is kept to 1/Fine of a position unit
MsPerSecond == 10 * 100

\* Date.now() when the process starts (milliseconds since the epoch, far past
\* the cooldown; kept small to stay far inside 32-bit integers).
StartTimes == {2 * PUNCH_COOLDOWN_MS}

\* The period of the physics setInterval timer, in whole milliseconds.
TickPeriod == MsPerSecond \div TICK_RATE

\* The clock values at which events are observed, as offsets from the start:
\* the start, a short wait later, and then after each long wait.  The
\* differences are 25 (below the dt cap), 225 and 250 (either side of the
\* effect lifetime), 450 and 475 (at and past the cooldown).
ShortWait == 5 * 5
LongWait == 9 * ShortWait
Offsets(jumps) == {0} \cup {ShortWait + k * LongWait : k \in 0 .. jumps}

\* An offset less than one physics period before the effect lifetime: a
\* physics step there is followed by no other before the lifetime is over.
LateTick == EFFECT_LIFETIME_MS - TickPeriod + 1

ClockOffsets == Offsets(MaxJumps) \cup {LateTick}
DuelOffsets == Offsets(DuelJumps)

SocketIds == 1 .. MaxSockets
\* The id recorded for an event that belongs to no socket.
NoOne == MaxSockets + 1

(* ---- arithmetic *)
Abs(a) == IF a < 0 THEN -a ELSE a

Sign(a) == IF a < 0 THEN -1 ELSE IF a > 0 THEN 1 ELSE 0

\* a / b for b > 0, rounded to the nearest integer (halves away from zero).
RoundDiv(a, b) == Sign(a) * ((Abs(a) + (b \div 2)) \div b)

Min(a, b) == IF a < b THEN a ELSE b

Max(a, b) == IF a > b THEN a ELSE b

RECURSIVE SqrtSearch(_, _, _)
\* The largest r in lo..hi with r * r <= n (lo * lo <= n is given).
SqrtSearch(n, lo, hi) ==
    IF lo >= hi THEN lo
    ELSE LET mid == (lo + hi + 1) \div 2
         IN  IF mid * mid <= n THEN SqrtSearch(n, mid, hi)
             ELSE SqrtSearch(n, lo, mid - 1)

\* sqrt(n) rounded to the nearest integer.
RoundSqrt(n) ==
    LET r == SqrtSearch(n, 0, Min(n, 40000))
    IN  IF n - r * r > r THEN r + 1 ELSE r

\* The square of Math.hypot(dx, dy).
Hypot2(dx, dy) == dx * dx + dy * dy

\* Math.hypot(dx, dy), in the units of dx and dy.
Hypot(dx, dy) == RoundSqrt(Hypot2(dx, dy))

\* clamp as it would be without its upper bound.
clampLowerOnly(v, min, max) == Max(min, v)

clamp(v, min, max) == Max(min, Min(max, v))

\* The bounds the code clamps players to, and draws token coordinates from.
PlayerMinX == PLAYER_RADIUS * Scale
PlayerMaxX == (ARENA_WIDTH - PLAYER_RADIUS) * Scale
PlayerMinY == PLAYER_RADIUS * Scale
PlayerMaxY == (ARENA_HEIGHT - PLAYER_RADIUS) * Scale
TokenMinX == TOKEN_RADIUS * Scale
TokenMaxX == (ARENA_WIDTH - TOKEN_RADIUS) * Scale
TokenMinY == TOKEN_RADIUS * Scale
TokenMaxY == (ARENA_HEIGHT - TOKEN_RADIUS) * Scale

(* ---- the random source *)
Seeds == 0 .. (NumSeeds - 1)

\* What a connection draws: randInt(PLAYER_RADIUS, ARENA.width - PLAYER_RADIUS),
\* randInt(PLAYER_RADIUS, ARENA.height - PLAYER_RADIUS) and the hue
\* randInt(0, 360) of randColor, in pixels.  The first sample is the corner of
\* the left and the bottom wall, the second lies exactly PUNCH_RANGE from it
\* (24, 32, 40).
SpawnSamples ==
    { [x |-> PLAYER_RADIUS, y |-> ARENA_HEIGHT - PLAYER_RADIUS, hue |-> 0],
      [x |-> 36, y |-> 556, hue |-> 360] }

\* The sites token coordinates are drawn at, in pixels: the far corner; a site
\* at exactly PLAYER_RADIUS + TOKEN_RADIUS from the first spawn sample; the
\* near corner, within reach of the first spawn sample; and a site just out
\* of reach of the second spawn sample (13, 13: 18.4 away).
TokenSites ==
    << [x |-> ARENA_WIDTH - TOKEN_RADIUS, y |-> TOKEN_RADIUS],
       [x |-> PLAYER_RADIUS + PLAYER_RADIUS + TOKEN_RADIUS, y |-> ARENA_HEIGHT - PLAYER_RADIUS],
       [x |-> TOKEN_RADIUS, y |-> ARENA_HEIGHT - TOKEN_RADIUS],
       [x |-> 23, y |-> 569] >>

\* The site of the k-th token drawn under a seed: seed 0 draws the far corner
\* every time, the other seeds walk through the sites.
DrawSite(seed, k) == TokenSites[((seed * k) % Len(TokenSites)) + 1]

\* One new token (part_000 lines 34-38 and 131-135); of its id,
\* `${Date.now()}-${random hex}`, the model keeps the Date.now() part.
NewToken(seed, k, time) ==
    [x |-> DrawSite(seed, k).x * Scale,
     y |-> DrawSite(seed, k).y * Scale,
     id |-> time]

\* spawnTokens(count): a fresh array of count tokens.
spawnTokens(count, seed, time) == [k \in 1 .. count |-> NewToken(seed, k, time)]

(* ---- state *)
VARIABLES
    players,       \* Map socketId -> player, as the sequence of its values in insertion order
    tokens,        \* the token array
    effects,       \* the effect array
    now,           \* Date.now()
    last,          \* `last` of the physics loop
    sockets,       \* the socket ids whose connection handler has run
    disconnected,  \* the socket ids whose disconnect handler has run
    emitted,       \* what the last handler emitted (socket.emit, io.emit)
    raised,        \* the error the last handler threw, or "none"
    ev,            \* the last event handled
    hits,          \* history: the punches applied, oldest first
    tried          \* history: the punch events of live players, as [id, t]

vars == << players, tokens, effects, now, last, sockets, disconnected,
           emitted, raised, ev, hits, tried >>

NoInput == [up |-> FALSE, down |-> FALSE, left |-> FALSE, right |-> FALSE]

Event(kind, id, done) == [kind |-> kind, id |-> id, done |-> done, dt |-> 0, removed |-> 0]

\* players.get(id): the index of the player in the map's order, 0 when absent.
IndexOf(ps, id) ==
    IF \E i \in 1 .. Len(ps) : ps[i].id = id
    THEN CHOOSE i \in 1 .. Len(ps) : ps[i].id = id
    ELSE 0

Live(ps) == {ps[i].id : i \in 1 .. Len(ps)}

Init ==
    /\ players = << >>
    /\ effects = << >>
    /\ now \in StartTimes
    /\ last = now
    /\ \E seed \in Seeds : tokens = spawnTokens(TOKEN_TARGET, seed, now)
    /\ sockets = {}
    /\ disconnected = {}
    /\ emitted = << >>
    /\ raised = "none"
    /\ ev = Event("start", NoOne, TRUE)
    /\ hits = << >>
    /\ tried = {}

(* ---- the clock *)
AdvanceClock(t) ==
    /\ t > now
    /\ now' = t
    /\ ev' = Event("clock", NoOne, TRUE)
    /\ emitted' = << >>
    /\ raised' = "none"
    /\ UNCHANGED << players, tokens, effects, last, sockets, disconnected, hits, tried >>

(* ---- io.on('connection') *)
\* randColor: the string `hsl(${h} 70% 50%)`, as the tuple of its parts.
randColor(h) == << "hsl", h, 70, 50 >>

\* The player as it would be with the clock at start-up for its last-action
\* timestamp.
NewPlayerStamped(id, x, y, hue) ==
    [id |-> id, x |-> x * Scale, y |-> y * Scale, color |-> randColor(hue), score |-> 0,
     input |-> NoInput, lastPunchAt |-> CHOOSE t \in StartTimes : TRUE]

NewPlayer(id, x, y, hue) ==
    [id |-> id, x |-> x * Scale, y |-> y * Scale, color |-> randColor(hue), score |-> 0,
     input |-> NoInput, lastPunchAt |-> 0]

Connect(id, x, y, hue) ==
    /\ id \notin sockets
    /\ id = Cardinality(sockets) + 1
    /\ players' = Append(players, NewPlayer(id, x, y, hue))
    /\ sockets' = sockets \cup {id}
    /\ ev' = Event("connect", id, TRUE)
    /\ emitted' = << >>
    /\ raised' = "none"
    /\ UNCHANGED << tokens, effects, now, last, disconnected, hits, tried >>

(* ---- socket.on('disconnect') *)
\* The delete as it would be if it removed nothing.
DeleteNothing(ps, id) == ps

\* players.delete(id)
Delete(ps, id) == SelectSeq(ps, LAMBDA p : p.id # id)

Disconnect(id) ==
    /\ id \in sockets \ disconnected
    /\ players' = Delete(players, id)
    /\ disconnected' = disconnected \cup {id}
    /\ ev' = Event("disconnect", id, TRUE)
    /\ emitted' = << >>
    /\ raised' = "none"
    /\ UNCHANGED << tokens, effects, now, last, sockets, hits, tried >>

(* ---- socket.on('input') *)
\* Payload values: a payload has a JavaScript type and, when it is an object
\* or an array, the values of its four fields ("undefined" when absent).
Payload(type, up, down, left, right) ==
    [type |-> type, up |-> up, down |-> down, left |-> left, right |-> right]

Scalar(type) == Payload(type, "undefined", "undefined", "undefined", "undefined")

PayloadSamples ==
    { Scalar("null"), Scalar("number"), Scalar("string"), Scalar("undefined"),
      Scalar("array"), Scalar("object"),
      Payload("object", "false", "true", "true", "0"),
      Payload("object", "null", "1", "'a'", "''") }

\* typeof incoming
TypeOf(incoming) ==
    IF incoming.type \in {"null", "array", "object"} THEN "object" ELSE incoming.type

\* Reading a property of incoming throws a TypeError when incoming is null.
ReadThrows(incoming) == incoming.type = "null"

\* !!v
ToBoolean(v) == v \in {"true", "1", "'a'"}

Coerced(incoming) ==
    [up |-> ToBoolean(incoming.up), down |-> ToBoolean(incoming.down),
     left |-> ToBoolean(incoming.left), right |-> ToBoolean(incoming.right)]

\* The handler as it would be if it merged the new vector into the old one.
AfterInputMerging(ps, id, incoming) ==
    LET i == IndexOf(ps, id)
        new == Coerced(incoming)
    IN  IF i = 0 \/ TypeOf(incoming) # "object" \/ ReadThrows(incoming) THEN ps
        ELSE [ps EXCEPT ![i].input =
                 [up |-> @.up \/ new.up, down |-> @.down \/ new.down,
                  left |-> @.left \/ new.left, right |-> @.right \/ new.right]]

\* The player map after the input handler (lines 58-65) has run, to its end,
\* to its early return or to the point where it throws.
AfterInput(ps, id, incoming) ==
    LET i == IndexOf(ps, id)
    IN  IF i = 0 \/ TypeOf(incoming) # "object" \/ ReadThrows(incoming) THEN ps
        ELSE [ps EXCEPT ![i].input = Coerced(incoming)]

\* The input handler as it would be without the test of p: assigning to
\* p.input throws when p is undefined.
InputUnguarded(id, incoming) ==
    LET i == IndexOf(players, id) IN
    /\ id \in sockets
    /\ emitted' = << >>
    /\ UNCHANGED << tokens, effects, now, last, sockets, disconnected, hits, tried >>
    /\ IF TypeOf(incoming) # "object"
       THEN /\ ev' = Event("input", id, FALSE)
            /\ raised' = "none"
            /\ UNCHANGED players
       ELSE IF ReadThrows(incoming) \/ i = 0
       THEN /\ ev' = Event("input", id, FALSE)
            /\ raised' = "TypeError"
            /\ UNCHANGED players
       ELSE /\ ev' = Event("input", id, TRUE)
            /\ raised' = "none"
            /\ players' = [players EXCEPT ![i].input = Coerced(incoming)]

Input(id, incoming) ==
    LET i == IndexOf(players, id) IN
    /\ id \in sockets
    /\ emitted' = << >>
    /\ UNCHANGED << tokens, effects, now, last, sockets, disconnected, hits, tried >>
    /\ IF i = 0 \/ TypeOf(incoming) # "object"
       THEN /\ ev' = Event("input", id, FALSE)
            /\ raised' = "none"
            /\ UNCHANGED players
       ELSE IF ReadThrows(incoming)
       THEN /\ ev' = Event("input", id, FALSE)
            /\ raised' = "TypeError"
            /\ UNCHANGED players
       ELSE /\ ev' = Event("input", id, TRUE)
            /\ raised' = "none"
            /\ players' = AfterInput(players, id, incoming)

(* ---- socket.on('punch') *)
\* The loop body as it would be with dist < PUNCH_RANGE for dist <= PUNCH_RANGE.
KnockStrictRange(ps, attackerId, v) ==
    LET attacker == ps[IndexOf(ps, attackerId)]
        victim == ps[v]
        dx == victim.x - attacker.x
        dy == victim.y - attacker.y
        dist == Hypot(dx * Fine, dy * Fine)
        len == IF dist = 0 THEN Scale * Fine ELSE dist
        ux == RoundDiv(dx * Fine * UnitScale, len)
        uy == RoundDiv(dy * Fine * UnitScale, len)
    IN  IF victim.id = attackerId THEN ps
        ELSE IF Hypot2(dx, dy) < (PUNCH_RANGE * Scale) * (PUNCH_RANGE * Scale)
        THEN [ps EXCEPT
                ![v].x = clamp(victim.x + RoundDiv(ux * KNOCKBACK * Scale, UnitScale),
                               PlayerMinX, PlayerMaxX),
                ![v].y = clamp(victim.y + RoundDiv(uy * KNOCKBACK * Scale, UnitScale),
                               PlayerMinY, PlayerMaxY)]
        ELSE ps

\* The loop body as it would be if each further entry of the iteration were
\* pushed harder than the one before.
KnockGrowing(ps, attackerId, v) ==
    LET attacker == ps[IndexOf(ps, attackerId)]
        victim == ps[v]
        dx == victim.x - attacker.x
        dy == victim.y - attacker.y
        dist == Hypot(dx * Fine, dy * Fine)
        len == IF dist = 0 THEN Scale * Fine ELSE dist
        ux == RoundDiv(dx * Fine * UnitScale, len)
        uy == RoundDiv(dy * Fine * UnitScale, len)
    IN  IF victim.id = attackerId THEN ps
        ELSE IF Hypot2(dx, dy) <= (PUNCH_RANGE * Scale) * (PUNCH_RANGE * Scale)
        THEN [ps EXCEPT
                ![v].x = clamp(victim.x + RoundDiv(ux * (KNOCKBACK + v) * Scale, UnitScale),
                               PlayerMinX, PlayerMaxX),
                ![v].y = clamp(victim.y + RoundDiv(uy * (KNOCKBACK + v) * Scale, UnitScale),
                               PlayerMinY, PlayerMaxY)]
        ELSE ps

\* One pass of the knockback loop body (lines 84-94) for the player at index v.
Knock(ps, attackerId, v) ==
    LET attacker == ps[IndexOf(ps, attackerId)]
        victim == ps[v]
        dx == victim.x - attacker.x
        dy == victim.y - attacker.y
        dist == Hypot(dx * Fine, dy * Fine)
        len == IF dist = 0 THEN Scale * Fine ELSE dist
        ux == RoundDiv(dx * Fine * UnitScale, len)
        uy == RoundDiv(dy * Fine * UnitScale, len)
    IN  IF victim.id = attackerId THEN ps
        ELSE IF Hypot2(dx, dy) <= (PUNCH_RANGE * Scale) * (PUNCH_RANGE * Scale)
        THEN [ps EXCEPT
                ![v].x = clamp(victim.x + RoundDiv(ux * KNOCKBACK * Scale, UnitScale),
                               PlayerMinX, PlayerMaxX),
                ![v].y = clamp(victim.y + RoundDiv(uy * KNOCKBACK * Scale, UnitScale),
                               PlayerMinY, PlayerMaxY)]
        ELSE ps

RECURSIVE KnockLoop(_, _, _)
\* for (const victim of players.values()), from index v on.
KnockLoop(ps, attackerId, v) ==
    IF v > Len(ps) THEN ps
    ELSE KnockLoop(Knock(ps, attackerId, v), attackerId, v + 1)

\* The cooldown test as it would be with the effect lifetime for the cooldown.
InCooldownLifetime(attacker, time) == time - attacker.lastPunchAt < EFFECT_LIFETIME_MS

\* The cooldown test as it would be with <= for <.
InCooldownInclusive(attacker, time) == time - attacker.lastPunchAt <= PUNCH_COOLDOWN_MS

\* The cooldown test of line 76: the punch is dropped.
InCooldown(attacker, time) == time - attacker.lastPunchAt < PUNCH_COOLDOWN_MS

PunchEffect(attacker, time) ==
    [type |-> "punch", x |-> attacker.x, y |-> attacker.y, t |-> time, id |-> attacker.id]

PunchAck(id, time) == [type |-> "punch_ack", to |-> id, ok |-> TRUE, t |-> time]

\* The punch handler as it would be if a dropped punch restarted the cooldown.
PunchExtending(id) ==
    LET i == IndexOf(players, id) IN
    /\ id \in sockets
    /\ raised' = "none"
    /\ UNCHANGED << tokens, now, last, sockets, disconnected >>
    /\ IF i = 0
       THEN /\ ev' = Event("punch", id, FALSE)
            /\ emitted' = << >>
            /\ UNCHANGED << players, effects, hits, tried >>
       ELSE IF InCooldown(players[i], now)
       THEN /\ ev' = Event("punch", id, FALSE)
            /\ emitted' = << >>
            /\ players' = [players EXCEPT ![i].lastPunchAt = now]
            /\ tried' = tried \cup {[id |-> id, t |-> now]}
            /\ UNCHANGED << effects, hits >>
       ELSE /\ ev' = Event("punch", id, TRUE)
            /\ players' = KnockLoop([players EXCEPT ![i].lastPunchAt = now], id, 1)
            /\ effects' = Append(effects, PunchEffect(players[i], now))
            /\ emitted' = << PunchAck(id, now) >>
            /\ hits' = Append(hits, [id |-> id, t |-> now])
            /\ tried' = tried \cup {[id |-> id, t |-> now]}

Punch(id) ==
    LET i == IndexOf(players, id) IN
    /\ id \in sockets
    /\ raised' = "none"
    /\ UNCHANGED << tokens, now, last, sockets, disconnected >>
    /\ IF i = 0
       THEN /\ ev' = Event("punch", id, FALSE)
            /\ emitted' = << >>
            /\ UNCHANGED << players, effects, hits, tried >>
       ELSE IF InCooldown(players[i], now)
       THEN /\ ev' = Event("punch", id, FALSE)
            /\ emitted' = << >>
            /\ tried' = tried \cup {[id |-> id, t |-> now]}
            /\ UNCHANGED << players, effects, hits >>
       ELSE /\ ev' = Event("punch", id, TRUE)
            /\ players' = KnockLoop([players EXCEPT ![i].lastPunchAt = now], id, 1)
            /\ effects' = Append(effects, PunchEffect(players[i], now))
            /\ emitted' = << PunchAck(id, now) >>
            /\ hits' = Append(hits, [id |-> id, t |-> now])
            /\ tried' = tried \cup {[id |-> id, t |-> now]}

(* ---- updatePhysics(dt) *)
\* One component of the normalized direction (lines 107-113), in UnitScale
\* units: v / Math.hypot(vx, vy), and v itself for the zero vector.
Normalized(v, vx, vy) ==
    IF vx # 0 \/ vy # 0
    THEN RoundDiv(v * UnitScale * UnitScale, Hypot(vx * UnitScale, vy * UnitScale))
    ELSE v * UnitScale

\* v * speed * dt for a direction component u (UnitScale units) and dt in
\* milliseconds, in position units.
Displacement(u, dtMs) == RoundDiv(u * SPEED * dtMs * Scale, UnitScale * MsPerSecond)

\* Lines 107-115: the player moved by its input and clamped.
Moved(p, dtMs) ==
    LET vx == (IF p.input.right THEN 1 ELSE 0) - (IF p.input.left THEN 1 ELSE 0)
        vy == (IF p.input.down THEN 1 ELSE 0) - (IF p.input.up THEN 1 ELSE 0)
    IN  [p EXCEPT
           !.x = clamp(p.x + Displacement(Normalized(vx, vx, vy), dtMs),
                       PlayerMinX, PlayerMaxX),
           !.y = clamp(p.y + Displacement(Normalized(vy, vx, vy), dtMs),
                       PlayerMinY, PlayerMaxY)]

\* The collection test as it would be with <= for <.
HitInclusive(p, t) ==
    Hypot2(p.x - t.x, p.y - t.y)
        <= ((PLAYER_RADIUS + TOKEN_RADIUS) * Scale) * ((PLAYER_RADIUS + TOKEN_RADIUS) * Scale)

\* Line 119-120: dist < PLAYER_RADIUS + TOKEN_RADIUS.
Hit(p, t) ==
    Hypot2(p.x - t.x, p.y - t.y)
        < ((PLAYER_RADIUS + TOKEN_RADIUS) * Scale) * ((PLAYER_RADIUS + TOKEN_RADIUS) * Scale)

\* The refill as it would be with one push too few.
RefillShort(ts, seed, drawn, time) ==
    IF Len(ts) < TOKEN_TARGET - 1
    THEN ts \o [k \in 1 .. (TOKEN_TARGET - 1 - Len(ts)) |-> NewToken(seed, drawn + k, time)]
    ELSE ts

\* Lines 128-137: the tokens pushed to keep the count, drawn after `drawn` draws.
Refill(ts, seed, drawn, time) ==
    IF Len(ts) < TOKEN_TARGET
    THEN ts \o [k \in 1 .. (TOKEN_TARGET - Len(ts)) |-> NewToken(seed, drawn + k, time)]
    ELSE ts

\* The body of the loop over the players (lines 107-137) for the player at
\* index i.  st carries the players, the tokens, and two counts: the tokens
\* removed and the tokens drawn so far in this call.
StepPlayer(st, i, dtMs, seed, time) ==
    LET p == Moved(st.players[i], dtMs)
        kept == SelectSeq(st.tokens, LAMBDA t : ~Hit(p, t))
        taken == Len(st.tokens) - Len(kept)
        refilled == Refill(kept, seed, st.drawn, time)
    IN  [players |-> [st.players EXCEPT ![i] = [p EXCEPT !.score = @ + taken]],
         tokens |-> refilled,
         removed |-> st.removed + taken,
         drawn |-> st.drawn + (Len(refilled) - Len(kept))]

RECURSIVE PlayerLoopReversed(_, _, _, _, _)
\* The loop as it would be if it went through the players last to first.
PlayerLoopReversed(st, i, dtMs, seed, time) ==
    IF i > Len(st.players) THEN st
    ELSE PlayerLoopReversed(StepPlayer(st, Len(st.players) - i + 1, dtMs, seed, time),
                            i + 1, dtMs, seed, time)

RECURSIVE PlayerLoop(_, _, _, _, _)
\* for (const p of players.values()), from index i on.
PlayerLoop(st, i, dtMs, seed, time) ==
    IF i > Len(st.players) THEN st
    ELSE PlayerLoop(StepPlayer(st, i, dtMs, seed, time), i + 1, dtMs, seed, time)

\* The filter as it would be with a lifetime longer than the cooldown.
UnexpiredLong(es, time) == SelectSeq(es, LAMBDA e : time - e.t < 2 * PUNCH_COOLDOWN_MS)

\* The filter as it would be with <= for <.
UnexpiredInclusive(es, time) == SelectSeq(es, LAMBDA e : time - e.t <= EFFECT_LIFETIME_MS)

\* Line 142: the effects that are kept.
Unexpired(es, time) == SelectSeq(es, LAMBDA e : time - e.t < EFFECT_LIFETIME_MS)

\* dt as it would be without the cap.
UncappedDt(time, previous) == time - previous

\* Line 149: Math.min(0.05, (now - last) / 1000), in milliseconds.
CappedDt(time, previous) == Min(DT_CAP_MS, time - previous)

\* One firing of the physics interval (lines 147-152) with updatePhysics (104-143).
PhysicsTick(seed) ==
    LET dtMs == CappedDt(now, last)
        st == PlayerLoop([players |-> players, tokens |-> tokens, removed |-> 0, drawn |-> 0],
                         1, dtMs, seed, now)
    IN  /\ now - last >= TickPeriod
        /\ last' = now
        /\ players' = st.players
        /\ tokens' = st.tokens
        /\ effects' = Unexpired(effects, now)
        /\ ev' = [Event("physics", NoOne, TRUE) EXCEPT !.dt = dtMs, !.removed = st.removed]
        /\ emitted' = << >>
        /\ raised' = "none"
        /\ UNCHANGED << now, sockets, disconnected, hits, tried >>

(* ---- the snapshot loop *)
\* The view as it would be if it copied the whole player.
ViewWhole(p) == p

\* Lines 160-166: the public view of a player.
View(p) == [id |-> p.id, x |-> p.x, y |-> p.y, color |-> p.color, score |-> p.score]

StatePayload ==
    [type |-> "state",
     arena |-> [width |-> ARENA_WIDTH, height |-> ARENA_HEIGHT],
     tokens |-> tokens,
     effects |-> effects,
     players |-> [i \in 1 .. Len(players) |-> View(players[i])]]

\* One firing of the snapshot interval (lines 155-169).
SnapshotTick ==
    /\ emitted' = << StatePayload >>
    /\ ev' = Event("snapshot", NoOne, TRUE)
    /\ raised' = "none"
    /\ UNCHANGED << players, tokens, effects, now, last, sockets, disconnected, hits, tried >>

(* ---- the environment *)
\* One session over the whole span of the clock: the first connection is the
\* only one.
Next ==
    \/ \E s \in StartTimes, d \in ClockOffsets : AdvanceClock(s + d)
    \/ \E id \in SocketIds, s \in SpawnSamples :
          sockets = {} /\ Connect(id, s.x, s.y, s.hue)
    \/ \E id \in SocketIds : Disconnect(id)
    \/ \E id \in SocketIds, incoming \in PayloadSamples : Input(id, incoming)
    \/ \E id \in SocketIds : Punch(id)
    \/ \E seed \in Seeds : PhysicsTick(seed)
    \/ SnapshotTick

Spec == Init /\ [][Next]_vars

\* Up to MaxSockets sessions, concurrent or one after the other, over a short
\* span of the clock.
NextDuel ==
    \/ \E s \in StartTimes, d \in DuelOffsets : AdvanceClock(s + d)
    \/ \E id \in SocketIds, s \in SpawnSamples : Connect(id, s.x, s.y, s.hue)
    \/ \E id \in SocketIds : Disconnect(id)
    \/ \E id \in SocketIds, incoming \in PayloadSamples : Input(id, incoming)
    \/ \E id \in SocketIds : Punch(id)
    \/ \E seed \in Seeds : PhysicsTick(seed)
    \/ SnapshotTick

SpecDuel == Init /\ [][NextDuel]_vars

\* The values Date.now() takes over a run of Spec.
ClockValues == {s + d : s \in StartTimes, d \in ClockOffsets}

\* The events that create, age and remove effects, and those that take the
\* players away, over one session.
NextLive ==
    \/ \E t \in ClockValues : AdvanceClock(t)
    \/ \E id \in SocketIds, s \in SpawnSamples :
          sockets = {} /\ Connect(id, s.x, s.y, s.hue)
    \/ \E id \in SocketIds : Disconnect(id)
    \/ \E id \in SocketIds : Punch(id)
    \/ \E seed \in Seeds : PhysicsTick(seed)

\* One session, with time passing and the physics interval firing over and
\* over: the clock does not stop short of a value it can reach, and a firing
\* of the physics timer that is due happens.
SpecLive ==
    /\ Init /\ [][NextLive]_vars
    /\ WF_vars(\E t \in ClockValues : AdvanceClock(t))
    /\ WF_vars(\E seed \in Seeds : PhysicsTick(seed))

\* A brawl: one player more than in a duel, spawned at places within and out
\* of range of each other (the two spawn samples, a place 30 from the first
\* along the bottom wall, and the middle of the arena), and their punches.
BrawlIds == 1 .. (MaxSockets + 1)

BrawlSpawns ==
    SpawnSamples \cup
        { [x |-> PLAYER_RADIUS + 30, y |-> ARENA_HEIGHT - PLAYER_RADIUS, hue |-> 0],
          [x |-> ARENA_WIDTH \div 2, y |-> ARENA_HEIGHT \div 2, hue |-> 0] }

NextBrawl ==
    \/ \E s \in StartTimes, d \in DuelOffsets : AdvanceClock(s + d)
    \/ \E id \in BrawlIds, s \in BrawlSpawns : Connect(id, s.x, s.y, s.hue)
    \/ \E id \in BrawlIds : Punch(id)

SpecBrawl == Init /\ [][NextBrawl]_vars

\* A player that runs along one axis or along the diagonal, over the whole
\* span of the clock with its stalls of the physics timer.
RunPayloads ==
    { Payload("object", "undefined", "undefined", "undefined", "true"),
      Payload("object", "true", "undefined", "undefined", "true"),
      Scalar("object") }

NextRun ==
    \/ \E t \in ClockValues : AdvanceClock(t)
    \/ \E id \in SocketIds, s \in SpawnSamples :
          sockets = {} /\ Connect(id, s.x, s.y, s.hue)
    \/ \E id \in SocketIds, incoming \in RunPayloads : Input(id, incoming)
    \/ \E seed \in Seeds : PhysicsTick(seed)

SpecRun == Init /\ [][NextRun]_vars

(* ======================= the claims ======================= *)

IsSnapshot == ev.kind = "snapshot"

\* The players list of the snapshot just emitted.
Snapshot == emitted[1]

(* C1: in every reachable state every live player has 12 <= x <= 800 - 12 and
   12 <= y <= 600 - 12, and every token has 6 <= x <= 800 - 6 and
   6 <= y <= 600 - 6 (in position units). *)
C1_InsideArena ==
    /\ \A i \in 1 .. Len(players) :
          /\ PLAYER_RADIUS * Scale <= players[i].x
          /\ players[i].x <= (ARENA_WIDTH - PLAYER_RADIUS) * Scale
          /\ PLAYER_RADIUS * Scale <= players[i].y
          /\ players[i].y <= (ARENA_HEIGHT - PLAYER_RADIUS) * Scale
    /\ \A k \in 1 .. Len(tokens) :
          /\ TOKEN_RADIUS * Scale <= tokens[k].x
          /\ tokens[k].x <= (ARENA_WIDTH - TOKEN_RADIUS) * Scale
          /\ TOKEN_RADIUS * Scale <= tokens[k].y
          /\ tokens[k].y <= (ARENA_HEIGHT - TOKEN_RADIUS) * Scale

\* A punch has just pushed a victim standing in the corner of two walls away
\* from an attacker within range: the push ended on both walls.
C1_Witness ==
    /\ ev.kind = "punch" /\ ev.done
    /\ \E i, j \in 1 .. Len(players) :
          /\ players[i].id = ev.id /\ i # j
          /\ players[j].x = PLAYER_RADIUS * Scale
          /\ players[j].y = (ARENA_HEIGHT - PLAYER_RADIUS) * Scale
          /\ players[i].x > players[j].x /\ players[i].y < players[j].y
          /\ Hypot2(players[i].x - players[j].x, players[i].y - players[j].y)
                <= (PUNCH_RANGE * Scale) * (PUNCH_RANGE * Scale)

(* C2: the token population is never below 24, and it is exactly 24 in every
   snapshot and between any two event handlers. *)
C2_TokenCount ==
    /\ Len(tokens) = TOKEN_TARGET
    /\ IsSnapshot => Len(Snapshot.tokens) = TOKEN_TARGET

\* A snapshot taken after two players have collected tokens.
C2_Witness ==
    /\ IsSnapshot
    /\ Len(players) = 2
    /\ \A i \in 1 .. Len(players) : players[i].score > 0
    /\ Len(Snapshot.tokens) = TOKEN_TARGET

(* C3: of two punch events of one player less than 450 apart at most one is
   applied: any two applied punches of a player, and any two of its effects
   in the store, are at least 450 apart. *)
C3_Cooldown ==
    /\ \A i, j \in 1 .. Len(hits) :
          (i < j /\ hits[i].id = hits[j].id) => hits[j].t - hits[i].t >= PUNCH_COOLDOWN_MS
    /\ \A i, j \in 1 .. Len(effects) :
          (i < j /\ effects[i].id = effects[j].id)
              => effects[j].t - effects[i].t >= PUNCH_COOLDOWN_MS

\* A punch has just been dropped, less than 450 after an applied punch of the
\* same player at an earlier clock value.
C3_Witness ==
    /\ ev.kind = "punch" /\ ~ev.done /\ ev.id \in Live(players)
    /\ \E i \in 1 .. Len(hits) :
          /\ hits[i].id = ev.id
          /\ hits[i].t < now
          /\ now - hits[i].t < PUNCH_COOLDOWN_MS

\* The punch event [id, t] was applied.
Applied(b) == \E k \in 1 .. Len(hits) : hits[k] = b

(* C4, as stated: of any two punch events of one live player at least 450
   apart, both are applied. *)
C4_AsStated ==
    \A a, b \in tried :
        (a.id = b.id /\ b.t - a.t >= PUNCH_COOLDOWN_MS) => (Applied(a) /\ Applied(b))

(* C4, amended: a punch event of a live player is applied unless a punch of
   that player was applied at an earlier clock value less than 450 before it;
   a punch just applied has set the attacker's timestamp, appended one effect
   stamped with the clock, and sent the acknowledgment. *)
C4_Amended ==
    /\ \A b \in tried :
          (\A k \in 1 .. Len(hits) :
              hits[k].id = b.id =>
                  ~(hits[k].t < b.t /\ b.t - hits[k].t < PUNCH_COOLDOWN_MS))
          => Applied(b)
    /\ (ev.kind = "punch" /\ ev.done) =>
          /\ players[IndexOf(players, ev.id)].lastPunchAt = now
          /\ Len(effects) > 0
          /\ effects[Len(effects)].id = ev.id
          /\ effects[Len(effects)].t = now
          /\ effects[Len(effects)].type = "punch"
          /\ emitted = << PunchAck(ev.id, now) >>

\* The second of two punches of one player, 450 or more apart, has just been
\* applied, and so was the first.
C4_Witness ==
    /\ ev.kind = "punch" /\ ev.done
    /\ \E i, j \in 1 .. Len(hits) :
          /\ i < j
          /\ hits[i].id = ev.id /\ hits[j].id = ev.id
          /\ hits[j].t = now
          /\ hits[j].t - hits[i].t >= PUNCH_COOLDOWN_MS

(* C5, as stated, for the snapshots built less than one physics period after
   a physics step (the physics timer is on time): every effect in a snapshot
   built at clock value now has now - e.t < 250. *)
C5_SnapshotEffectsUnexpired ==
    (IsSnapshot /\ now - last < TickPeriod) =>
        \A k \in 1 .. Len(Snapshot.effects) :
            now - Snapshot.effects[k].t < EFFECT_LIFETIME_MS

(* C6, as stated: the input handler of a live player finishes without raising
   an error, whatever the payload, and leaves an intent of four booleans. *)
C6_InputNeverRaises ==
    (ev.kind = "input" /\ ev.id \in Live(players)) =>
        /\ raised = "none"
        /\ \A f \in {"up", "down", "left", "right"} :
              players[IndexOf(players, ev.id)].input[f] \in BOOLEAN

(* C7: a player whose disconnect event has been handled is in no snapshot
   built afterwards and is never in the store again. *)
C7_GoneStaysGone ==
    \A id \in disconnected :
        /\ id \notin Live(players)
        /\ IsSnapshot =>
              \A k \in 1 .. Len(Snapshot.players) : Snapshot.players[k].id # id

\* A snapshot built after a disconnect, with another player live.
C7_Witness ==
    /\ IsSnapshot
    /\ disconnected # {}
    /\ Len(Snapshot.players) > 0

(* C8: an input or punch event of a socket whose player is not live changes
   neither players nor tokens nor effects, emits nothing and raises nothing. *)
C8_DeadIdNoOp ==
    [][(ev'.kind \in {"input", "punch"} /\ ev'.id \notin Live(players))
          => /\ players' = players
             /\ tokens' = tokens
             /\ effects' = effects
             /\ emitted' = << >>
             /\ raised' = "none"]_vars

\* A punch of a disconnected socket has just been handled while another player
\* is live and an effect is in the store.
C8_Witness ==
    /\ ev.kind = "punch"
    /\ ev.id \in disconnected
    /\ Len(players) > 0
    /\ Len(effects) > 0

\* 80 * d / dist for one component d of the vector (dx, dy) from the attacker
\* to the victim, in position units, by a single division.
Push(d, dx, dy) == RoundDiv(KNOCKBACK * Scale * d * Fine, Hypot(dx * Fine, dy * Fine))

\* The victim v is where C9 puts it, to within one position unit, when the
\* attacker a punches and w is the victim afterwards.
KnockedAsClaimed(v, a, w) ==
    LET dx == v.x - a.x
        dy == v.y - a.y
        d2 == Hypot2(dx, dy)
    IN  IF v.id # a.id /\ 0 < d2 /\ d2 <= (PUNCH_RANGE * Scale) * (PUNCH_RANGE * Scale)
        THEN /\ Abs(w.x - clamp(v.x + Push(dx, dx, dy), PLAYER_RADIUS * Scale,
                                (ARENA_WIDTH - PLAYER_RADIUS) * Scale)) <= 1
             /\ Abs(w.y - clamp(v.y + Push(dy, dx, dy), PLAYER_RADIUS * Scale,
                                (ARENA_HEIGHT - PLAYER_RADIUS) * Scale)) <= 1
        ELSE w.x = v.x /\ w.y = v.y

(* C9: an applied punch moves every other live player at distance 0 < d <= 40
   from the attacker to clamp(v + 80 * (v - attacker) / d) on each axis, and
   leaves the attacker, a coincident player and a player farther than 40
   where they were. *)
C9_Knockback ==
    [][(ev'.kind = "punch" /\ ev'.done)
          => /\ Len(players') = Len(players)
             /\ \A j \in 1 .. Len(players) :
                   /\ players'[j].id = players[j].id
                   /\ KnockedAsClaimed(players[j], players[IndexOf(players, ev'.id)],
                                       players'[j])]_vars

\* A punch has just thrown a victim from the edge of the range to a place
\* 120 pixels from the attacker, clear of the walls.
C9_Witness ==
    /\ ev.kind = "punch" /\ ev.done
    /\ \E i, j \in 1 .. Len(players) :
          /\ players[i].id = ev.id /\ i # j
          /\ players[j].x > PLAYER_RADIUS * Scale
          /\ players[j].y < (ARENA_HEIGHT - PLAYER_RADIUS) * Scale
          /\ Hypot2(players[j].x - players[i].x, players[j].y - players[i].y)
                >= ((PUNCH_RANGE + KNOCKBACK - 1) * Scale) * ((PUNCH_RANGE + KNOCKBACK - 1) * Scale)
          /\ Hypot2(players[j].x - players[i].x, players[j].y - players[i].y)
                <= ((PUNCH_RANGE + KNOCKBACK + 1) * Scale) * ((PUNCH_RANGE + KNOCKBACK + 1) * Scale)

\* The token t lies at a distance below 18 pixels from the player p.
WithinReach(p, t) ==
    Hypot2(p.x - t.x, p.y - t.y)
        < ((PLAYER_RADIUS + TOKEN_RADIUS) * Scale) * ((PLAYER_RADIUS + TOKEN_RADIUS) * Scale)

InSeq(x, seq) == \E k \in 1 .. Len(seq) : seq[k] = x

RECURSIVE SumScore(_)
SumScore(ps) == IF ps = << >> THEN 0 ELSE Head(ps).score + SumScore(Tail(ps))

(* C10: a physics step removes every token of its start that is less than 18
   from the position some player has after moving, keeps every token of its
   start that is 18 or more from all of them, and raises the players' scores
   by one per token removed in the step, no score going down. *)
C10_Collection ==
    [][ev'.kind = "physics"
          => /\ \A k \in 1 .. Len(tokens) :
                   /\ (\E j \in 1 .. Len(players') : WithinReach(players'[j], tokens[k]))
                         => ~InSeq(tokens[k], tokens')
                   /\ (\A j \in 1 .. Len(players') : ~WithinReach(players'[j], tokens[k]))
                         => InSeq(tokens[k], tokens')
             /\ SumScore(players') - SumScore(players) = ev'.removed
             /\ ev'.removed >= Cardinality({k \in 1 .. Len(tokens) : ~InSeq(tokens[k], tokens')})
             /\ \A j \in 1 .. Len(players) : players'[j].score >= players[j].score]_vars

\* A step has just removed tokens for two players, each of whom scored, and
\* kept a token at exactly 18 pixels from a player.
C10_Witness ==
    /\ ev.kind = "physics" /\ ev.removed >= 2
    /\ Len(players) = 2
    /\ \A j \in 1 .. Len(players) : players[j].score > 0
    /\ \E j \in 1 .. Len(players), k \in 1 .. Len(tokens) :
          Hypot2(players[j].x - tokens[k].x, players[j].y - tokens[k].y)
              = ((PLAYER_RADIUS + TOKEN_RADIUS) * Scale) * ((PLAYER_RADIUS + TOKEN_RADIUS) * Scale)

(* C11: building a snapshot changes neither players nor tokens nor effects,
   and the players list of the snapshot has one entry per live player, in the
   map's order, with the fields id, x, y, color and score only, each equal to
   the player's current value. *)
C11_SnapshotView ==
    [][ev'.kind = "snapshot"
          => /\ players' = players
             /\ tokens' = tokens
             /\ effects' = effects
             /\ Len(emitted') = 1
             /\ emitted'[1].tokens = tokens
             /\ emitted'[1].effects = effects
             /\ Len(emitted'[1].players) = Len(players)
             /\ \A i \in 1 .. Len(players) :
                   /\ DOMAIN emitted'[1].players[i] = {"id", "x", "y", "color", "score"}
                   /\ emitted'[1].players[i].id = players[i].id
                   /\ emitted'[1].players[i].x = players[i].x
                   /\ emitted'[1].players[i].y = players[i].y
                   /\ emitted'[1].players[i].color = players[i].color
                   /\ emitted'[1].players[i].score = players[i].score]_vars

\* A snapshot of two players, one of whom has an intent, a score and a punch
\* behind it.
C11_Witness ==
    /\ IsSnapshot
    /\ Len(Snapshot.players) = 2
    /\ \E i \in 1 .. Len(players) :
          /\ players[i].input # NoInput
          /\ players[i].lastPunchAt > 0
          /\ players[i].score > 0

\* The payload is an intent vector the handler takes: an object that is not
\* null (an array is one).
IsVector(incoming) == incoming.type \in {"object", "array"}

(* C12, as stated: whatever two input events a live player sends one after
   the other, the player map is as after the second alone. *)
C12_AsStated ==
    \A id \in Live(players) : \A a, b \in PayloadSamples :
        AfterInput(AfterInput(players, id, a), id, b) = AfterInput(players, id, b)

\* v * 180 * dt for a component v of the intent (vx, vy), normalized, in
\* position units, by a single division.
Stride(v, vx, vy, dtMs) ==
    IF vx = 0 /\ vy = 0 THEN 0
    ELSE RoundDiv(v * SPEED * dtMs * Scale * MsPerSecond,
                  MsPerSecond * RoundSqrt((vx * vx + vy * vy) * MsPerSecond * MsPerSecond))

\* The player p is, after a step of dtMs, within one position unit of where
\* its intent alone takes it; q is the player after the step.
SteppedOnce(p, q, dtMs) ==
    LET vx == (IF p.input.right THEN 1 ELSE 0) - (IF p.input.left THEN 1 ELSE 0)
        vy == (IF p.input.down THEN 1 ELSE 0) - (IF p.input.up THEN 1 ELSE 0)
    IN  /\ Abs(q.x - clamp(p.x + Stride(vx, vx, vy, dtMs), PLAYER_RADIUS * Scale,
                           (ARENA_WIDTH - PLAYER_RADIUS) * Scale)) <= 1
        /\ Abs(q.y - clamp(p.y + Stride(vy, vx, vy, dtMs), PLAYER_RADIUS * Scale,
                           (ARENA_HEIGHT - PLAYER_RADIUS) * Scale)) <= 1
        /\ q.input = p.input

(* C12, amended: of two input events of a live player the second alone
   decides the intent when its payload is a non-null object, and the first
   alone when it is not (the second is then ignored, or throws on null); the
   same payload twice is the same as once; and a physics step moves each
   player once, by its current intent. *)
C12_Amended ==
    /\ [](\A id \in Live(players) : \A a, b \in PayloadSamples :
             /\ IsVector(b) =>
                   AfterInput(AfterInput(players, id, a), id, b) = AfterInput(players, id, b)
             /\ ~IsVector(b) =>
                   AfterInput(AfterInput(players, id, a), id, b) = AfterInput(players, id, a)
             /\ AfterInput(AfterInput(players, id, a), id, a) = AfterInput(players, id, a))
    /\ [][ev'.kind = "physics"
             => /\ Len(players') = Len(players)
                /\ \A j \in 1 .. Len(players) :
                      SteppedOnce(players[j], players'[j], ev'.dt)]_vars

\* A physics step has just moved a player by a non-zero intent, away from
\* where it was spawned.
C12_Witness ==
    /\ ev.kind = "physics" /\ ev.dt > 0
    /\ \E j \in 1 .. Len(players) :
          /\ players[j].input # NoInput
          /\ players[j].lastPunchAt = 0
          /\ \A sp \in SpawnSamples : players[j].x # sp.x * Scale

\* The tokens of the start of a step that are gone after it, by index.
GoneInStep == {k \in 1 .. Len(tokens) : ~InSeq(tokens[k], tokens')}

(* C13, as stated: no token created by the refill of a physics step is
   collected in that step: every token removed in the step (each scoring one
   point) was in the array when the step began. *)
C13_RefillAfterAllPlayers ==
    [][ev'.kind = "physics"
          => /\ ev'.removed = Cardinality(GoneInStep)
             /\ SumScore(players') - SumScore(players) = Cardinality(GoneInStep)]_vars

(* C14: the first punch event of a live player since it connected finds the
   last-action timestamp 0 and is applied at whatever value of Date.now() it
   arrives: it sets the timestamp, appends the effect and is acknowledged. *)
C14_FirstPunchApplied ==
    [][(ev'.kind = "punch" /\ ev'.id \in Live(players)
           /\ \A b \in tried : b.id # ev'.id)
          => /\ players[IndexOf(players, ev'.id)].lastPunchAt = 0
             /\ ev'.done
             /\ players'[IndexOf(players', ev'.id)].lastPunchAt = now
             /\ effects' = Append(effects, PunchEffect(players[IndexOf(players, ev'.id)], now))
             /\ emitted' = << PunchAck(ev'.id, now) >>]_vars

\* The first punch of the run has just been applied, at a clock value later
\* than the start.
C14_Witness ==
    /\ ev.kind = "punch" /\ ev.done
    /\ hits = << [id |-> ev.id, t |-> now] >>
    /\ tried = {[id |-> ev.id, t |-> now]}
    /\ now \notin StartTimes

(* C15: a punch of a live player that the cooldown test drops changes nothing:
   players (positions and the attacker's timestamp included), tokens and
   effects are as before, nothing is emitted, and no punch is recorded as
   applied. *)
C15_DroppedPunchNoOp ==
    [][(ev'.kind = "punch" /\ ev'.id \in Live(players) /\ ~ev'.done)
          => /\ now - players[IndexOf(players, ev'.id)].lastPunchAt < PUNCH_COOLDOWN_MS
             /\ players' = players
             /\ tokens' = tokens
             /\ effects' = effects
             /\ emitted' = << >>
             /\ raised' = "none"
             /\ hits' = hits
             /\ last' = last]_vars

\* A punch has just been dropped at a clock value later than the attacker's
\* timestamp, with a second player within range of the attacker.
C15_Witness ==
    /\ ev.kind = "punch" /\ ~ev.done
    /\ \E i, j \in 1 .. Len(players) :
          /\ players[i].id = ev.id /\ i # j
          /\ players[i].lastPunchAt > 0
          /\ players[i].lastPunchAt < now
          /\ Hypot2(players[j].x - players[i].x, players[j].y - players[i].y)
                <= (PUNCH_RANGE * Scale) * (PUNCH_RANGE * Scale)
          /\ Hypot2(players[j].x - players[i].x, players[j].y - players[i].y) > 0

\* The clock values at which an effect can be created and see its lifetime
\* end within the run.
ExpiringTimes ==
    {t \in ClockValues : \E u \in ClockValues : u >= t + EFFECT_LIFETIME_MS}

RECURSIVE Younger(_, _)
\* The entries of es less than 250 old at the given time, in their order.
Younger(es, time) ==
    IF es = << >> THEN << >>
    ELSE IF time - Head(es).t < EFFECT_LIFETIME_MS
         THEN << Head(es) >> \o Younger(Tail(es), time)
         ELSE Younger(Tail(es), time)

(* C16: a physics step at clock value now keeps exactly the effects with
   now - e.t < 250, in their order, and while the clock advances and the
   physics timer fires, an effect created at t is eventually out of the
   array, whether or not a player is connected. *)
C16_EffectsExpire ==
    /\ [][ev'.kind = "physics" => effects' = Younger(effects, now)]_vars
    /\ \A t \in ExpiringTimes :
          (\E k \in 1 .. Len(effects) : effects[k].t = t)
              ~> (\A k \in 1 .. Len(effects) : effects[k].t # t)

\* A physics step has just emptied the effect array, after the only player
\* had punched and left.
C16_Witness ==
    /\ ev.kind = "physics"
    /\ hits # << >>
    /\ effects = << >>
    /\ players = << >>
    /\ now - hits[Len(hits)].t >= EFFECT_LIFETIME_MS

\* The tokens of the start of a step, by index, that are within reach of the
\* player at index j after its move and of no player before it in the map's
\* order.
FirstInReach(j) ==
    {k \in 1 .. Len(tokens) :
        /\ WithinReach(players'[j], tokens[k])
        /\ \A i \in 1 .. (j - 1) : ~WithinReach(players'[i], tokens[k])}

(* C17: in a physics step a token within reach of several players is scored
   by the first of them in the map's insertion order and by no other: each
   player scores every token of the start of the step that it is the first to
   reach, and beyond those only tokens created during the step; the first
   player scores exactly the tokens within its reach; no removal is scored
   twice. *)
C17_FirstIteratedCollects ==
    [][ev'.kind = "physics"
          => /\ Len(players') = Len(players)
             /\ \A j \in 1 .. Len(players) :
                   /\ players'[j].score - players[j].score >= Cardinality(FirstInReach(j))
                   /\ players'[j].score - players[j].score
                         <= Cardinality(FirstInReach(j))
                              + (ev'.removed - Cardinality(GoneInStep))
                   /\ j = 1 =>
                         players'[j].score - players[j].score = Cardinality(FirstInReach(j))
             /\ SumScore(players') - SumScore(players) = ev'.removed]_vars

\* A step has just let the first of two players standing at the same place
\* score six tokens or more, and the second fewer.
C17_Witness ==
    /\ ev.kind = "physics" /\ ev.removed >= 6
    /\ Len(players) = 2
    /\ players[1].x = players[2].x /\ players[1].y = players[2].y
    /\ players[1].score >= 6
    /\ players[2].score < players[1].score

\* The player map in the iteration order f, a permutation of its indexes.
Reordered(ps, f) == [k \in 1 .. Len(ps) |-> ps[f[k]]]

(* C18: the outcome of an applied punch is the same in whatever order the
   players are gone through: the knockback loop run over any permutation of
   the map leaves every player where the punch has left it. *)
C18_OrderIndependent ==
    [][(ev'.kind = "punch" /\ ev'.done)
          => \A f \in Permutations(1 .. Len(players)) :
                LET stamped == [players EXCEPT
                                   ![IndexOf(players, ev'.id)].lastPunchAt = now]
                    out == KnockLoop(Reordered(stamped, f), ev'.id, 1)
                IN  \A k \in 1 .. Len(players) : out[k] = players'[f[k]]]_vars

\* A punch among three players has just displaced both of the others: they
\* are beyond the range but within 125 pixels of the attacker, and nobody was
\* spawned more than 40 and less than 125 from anybody.
C18_Witness ==
    /\ ev.kind = "punch" /\ ev.done
    /\ Len(players) = 3
    /\ \E i \in 1 .. Len(players) :
          /\ players[i].id = ev.id
          /\ \A j \in 1 .. Len(players) :
                j # i =>
                   /\ Hypot2(players[j].x - players[i].x, players[j].y - players[i].y)
                         > (PUNCH_RANGE * Scale) * (PUNCH_RANGE * Scale)
                   /\ Hypot2(players[j].x - players[i].x, players[j].y - players[i].y)
                         < (125 * Scale) * (125 * Scale)

\* 180 * 0.05 pixels, in position units.
MaxStride == (SPEED * DT_CAP_MS * Scale) \div MsPerSecond

(* C19: the dt of a physics step is the time since the previous firing, and
   0.05 when that is longer, so no player moves more than 180 * 0.05 = 9
   pixels on either axis in one step. *)
C19_DtCapped ==
    [][ev'.kind = "physics"
          => /\ ev'.dt <= DT_CAP_MS
             /\ ev'.dt <= now - last
             /\ (ev'.dt = DT_CAP_MS \/ ev'.dt = now - last)
             /\ \A j \in 1 .. Len(players) :
                   /\ Abs(players'[j].x - players[j].x) <= MaxStride
                   /\ Abs(players'[j].y - players[j].y) <= MaxStride]_vars

\* A step after a stall of the timer has just moved a player running to the
\* right the full 9 pixels from where it was spawned.
C19_Witness ==
    /\ ev.kind = "physics" /\ ev.dt = DT_CAP_MS
    /\ now - DT_CAP_MS > CHOOSE t \in StartTimes : TRUE
    /\ \E j \in 1 .. Len(players) :
          /\ players[j].input.right /\ ~players[j].input.left
          /\ players[j].x = PLAYER_RADIUS * Scale + MaxStride

(* C20: right after a physics step no two entries of the effect array come
   from the same player, however the punches, the steps and the stalls of the
   physics timer have interleaved. *)
C20_OneEffectPerPlayer ==
    ev.kind = "physics" =>
        \A i, j \in 1 .. Len(effects) : i # j => effects[i].id # effects[j].id

\* A step has just run at the clock value of a player's second applied punch
\* and has left the effect of that punch alone in the array.
C20_Witness ==
    /\ ev.kind = "physics"
    /\ Len(hits) >= 2
    /\ hits[1].id = hits[2].id
    /\ now = hits[Len(hits)].t
    /\ Len(effects) = 1
    /\ effects[1].t = now

=============================================================================
